---- MODULE Spec2Model ----
(***************************************************************************)
(* Model of src/src/validate_extraction.py: the validation CLI that loads  *)
(* a gold-standard JSON list and an extraction-results JSON list, aligns   *)
(* them by index and computes exact-match accuracy (scalar fields) and     *)
(* micro-averaged recall (list fields).                                    *)
(*                                                                         *)
(* JSON values are tagged records [t, v]:                                  *)
(*   t = "null"  v = <<>>                                                  *)
(*   t = "num"   v = a natural number                                      *)
(*   t = "str"   v = the sequence of its characters                        *)
(*   t = "list"  v = the sequence of its items                             *)
(*   t = "dict"  v = the sequence of its <<key, value>> pairs, in          *)
(*               insertion order (Python dicts keep it)                    *)
(* A Python str is the sequence of its characters, so that strip() and     *)
(* str() are computed and not assumed.  A float result p/q is the reduced  *)
(* fraction <<p, q>>: correctly rounded division gives equal floats exactly*)
(* for equal fractions at these sizes.                                     *)
(***************************************************************************)
EXTENDS Integers, Sequences, FiniteSets, TLC

\* ------------------------------------------------------------ bounds
\* Longest JSON array (number of records) a file holds.
MaxLen == 2

\* ------------------------------------------------------- JSON values
Null == [t |-> "null", v |-> <<>>]
Num(n) == [t |-> "num", v |-> n]
Str(chars) == [t |-> "str", v |-> chars]
List(items) == [t |-> "list", v |-> items]
Dict(pairs) == [t |-> "dict", v |-> pairs]

EmptyStr == Str(<<>>)
EmptyList == List(<<>>)

\* key in d  (d a dict)
HasKey(d, key) == \E i \in 1..Len(d.v) : d.v[i][1] = key

\* d[key]  (d a dict holding key)
Lookup(d, key) == d.v[CHOOSE i \in 1..Len(d.v) : d.v[i][1] = key][2]

\* Python truthiness of a JSON value: None, 0, "", [] and {} are falsy.
Truthy(x) ==
  CASE x.t = "null" -> FALSE
    [] x.t = "num" -> x.v # 0
    [] OTHER -> x.v # <<>>

\* x or y
Or(x, y) == IF Truthy(x) THEN x ELSE y

\* ------------------------------------------------------ str(), strip()
Digit(d) == <<"0", "1", "2", "3", "4", "5", "6", "7", "8", "9">>[d + 1]

RECURSIVE IntToStr(_)
IntToStr(n) == IF n < 10 THEN <<Digit(n)>> ELSE IntToStr(n \div 10) \o <<Digit(n % 10)>>

RECURSIVE Join(_, _)
\* sep.join(parts), parts a sequence of character sequences
Join(parts, sep) ==
  IF parts = <<>> THEN <<>>
  ELSE IF Len(parts) = 1 THEN parts[1]
  ELSE parts[1] \o sep \o Join(Tail(parts), sep)

RECURSIVE Repr(_)
\* repr(x).  A dict key is one token of the text ('diabetes'), which is enough
\* to tell two such texts apart; no string of the model holds a quote or a
\* backslash, so repr of a str only adds the quotes.
Repr(x) ==
  CASE x.t = "null" -> <<"N", "o", "n", "e">>
    [] x.t = "num" -> IntToStr(x.v)
    [] x.t = "str" -> <<"'">> \o x.v \o <<"'">>
    [] x.t = "list" ->
         <<"[">> \o Join([i \in 1..Len(x.v) |-> Repr(x.v[i])], <<",", " ">>) \o <<"]">>
    [] OTHER ->
         <<"{">> \o Join([i \in 1..Len(x.v) |->
                            <<"'", x.v[i][1], "'", ":", " ">> \o Repr(x.v[i][2])],
                         <<",", " ">>) \o <<"}">>

\* str(x): a str is itself, anything else its repr
PyStr(x) == IF x.t = "str" THEN x.v ELSE Repr(x)

IsSpace(c) == c = " "

RECURSIVE LStrip(_)
LStrip(s) == IF s # <<>> /\ IsSpace(Head(s)) THEN LStrip(Tail(s)) ELSE s

RECURSIVE RStrip(_)
RStrip(s) ==
  IF s # <<>> /\ IsSpace(s[Len(s)]) THEN RStrip(SubSeq(s, 1, Len(s) - 1)) ELSE s

\* s.strip()
Strip(s) == RStrip(LStrip(s))

\* ------------------------------------------------------------ floats
RECURSIVE GCD(_, _)
GCD(a, b) == IF b = 0 THEN a ELSE GCD(b, a % b)

\* a / b as a float, b > 0
Div(a, b) == LET g == GCD(a, b) IN <<a \div g, b \div g>>

Float0 == <<0, 1>>
Float1 == <<1, 1>>

\* ------------------------------------------------------ _get_nested
RECURSIVE get_nested_loop_break(_, _, _)
\* the loop with "break" where the code has "return default"
get_nested_loop_break(current, keys, default) ==
  IF keys = <<>> THEN [ret |-> FALSE, val |-> current]
  ELSE IF current.t = "dict" /\ HasKey(current, Head(keys))
       THEN get_nested_loop_break(Lookup(current, Head(keys)), Tail(keys), default)
       ELSE [ret |-> FALSE, val |-> current]

RECURSIVE get_nested_loop(_, _, _)
\* the for loop of _get_nested: [ret |-> TRUE] when it returned the default
get_nested_loop(current, keys, default) ==
  IF keys = <<>> THEN [ret |-> FALSE, val |-> current]
  ELSE IF current.t = "dict" /\ HasKey(current, Head(keys))
       THEN get_nested_loop(Lookup(current, Head(keys)), Tail(keys), default)
       ELSE [ret |-> TRUE, val |-> default]

\* _get_nested(obj, *keys, default_list=default_list); default_list is Null
\* for None
_get_nested(obj, keys, default_list) ==
  LET default == IF default_list.t # "null" THEN EmptyList ELSE EmptyStr
      r == get_nested_loop(obj, keys, default)
  IN  IF r.ret THEN r.val
      ELSE IF default_list.t # "null" /\ r.val.t # "list" THEN EmptyList
      ELSE IF r.val.t # "null" THEN r.val ELSE default

\* _ensure_list(val)
_ensure_list(val) ==
  IF val.t = "null" THEN EmptyList
  ELSE IF val.t = "list" THEN val ELSE EmptyList

\* ---------------------------------------------------------- getters
\* run_validation's nested getters, named by their function names
get_diabetes_type(obj) == Or(_get_nested(obj, <<"diabetes", "type">>, Null), EmptyStr)

get_diabetes_status(obj) == Or(_get_nested(obj, <<"diabetes", "status">>, Null), EmptyStr)

get_bp_status(obj) ==
  Or(_get_nested(obj, <<"blood_pressure", "hypertension_status">>, Null), EmptyStr)

get_diabetes_a1c(obj) ==
  _ensure_list(_get_nested(obj, <<"diabetes", "a1c_values">>, EmptyList))

get_diabetes_glucose(obj) ==
  _ensure_list(_get_nested(obj, <<"diabetes", "glucose_values">>, EmptyList))

get_bp_readings(obj) ==
  _ensure_list(_get_nested(obj, <<"blood_pressure", "bp_readings">>, EmptyList))

ScalarGetters == {"get_diabetes_type", "get_diabetes_status", "get_bp_status"}

ListGetters == {"get_diabetes_a1c", "get_diabetes_glucose", "get_bp_readings"}

\* getter(obj), the getter passed by name
Call(getter, obj) ==
  CASE getter = "get_diabetes_type" -> get_diabetes_type(obj)
    [] getter = "get_diabetes_status" -> get_diabetes_status(obj)
    [] getter = "get_bp_status" -> get_bp_status(obj)
    [] getter = "get_diabetes_a1c" -> get_diabetes_a1c(obj)
    [] getter = "get_diabetes_glucose" -> get_diabetes_glucose(obj)
    [] getter = "get_bp_readings" -> get_bp_readings(obj)

\* ----------------------------------------------------- metric engine
Min(a, b) == IF a <= b THEN a ELSE b

\* len(list(zip(a, b)))
ZipLen(a, b) == Min(Len(a), Len(b))

\* "" if g is None or g == "" else str(g).strip(), without the strip
Normalize_nostrip(g) ==
  IF g.t = "null" \/ (g.t = "str" /\ g.v = <<>>) THEN <<>> ELSE PyStr(g)

Lower(c) == IF c = "A" THEN "a" ELSE IF c = "B" THEN "b" ELSE c

\* the normalisation followed by lower(): a case-insensitive comparison
Normalize_lower(g) ==
  IF g.t = "null" \/ (g.t = "str" /\ g.v = <<>>) THEN <<>>
  ELSE [i \in 1..Len(Strip(PyStr(g))) |-> Lower(Strip(PyStr(g))[i])]

\* "" if g is None or g == "" else str(g).strip()
Normalize(g) ==
  IF g.t = "null" \/ (g.t = "str" /\ g.v = <<>>) THEN <<>> ELSE Strip(PyStr(g))

RECURSIVE exact_match_loop(_, _, _, _, _)
\* the for loop of compute_exact_match_accuracy from pair i on: the number of
\* pairs it counts as correct
exact_match_loop(gold_list, pred_list, getter_gold, getter_pred, i) ==
  IF i > ZipLen(gold_list, pred_list) THEN 0
  ELSE LET g_str == Normalize(Call(getter_gold, gold_list[i]))
           p_str == Normalize(Call(getter_pred, pred_list[i]))
       IN  (IF g_str = p_str THEN 1 ELSE 0)
           + exact_match_loop(gold_list, pred_list, getter_gold, getter_pred, i + 1)

compute_exact_match_accuracy(gold_list, pred_list, getter_gold, getter_pred) ==
  LET n == Len(gold_list)
  IN  IF n = 0 THEN Float0
      ELSE Div(exact_match_loop(gold_list, pred_list, getter_gold, getter_pred, 1), n)

\* g_str in [...] where only the first predicted item is looked at
ItemFound_first(g_item, p_items) ==
  p_items # <<>> /\ Strip(PyStr(g_item)) = Strip(PyStr(p_items[1]))

\* g_str in [str(x).strip() for x in p_items], g_str = str(g_item).strip()
ItemFound(g_item, p_items) ==
  \E k \in 1..Len(p_items) : Strip(PyStr(g_item)) = Strip(PyStr(p_items[k]))

RECURSIVE items_loop(_, _, _)
\* the inner loop over g_items from item j on: what it adds to (tp, fn)
items_loop(g_items, p_items, j) ==
  IF j > Len(g_items) THEN [tp |-> 0, fn |-> 0]
  ELSE LET rest == items_loop(g_items, p_items, j + 1)
       IN  IF ItemFound(g_items[j], p_items)
           THEN [tp |-> rest.tp + 1, fn |-> rest.fn]
           ELSE [tp |-> rest.tp, fn |-> rest.fn + 1]

RECURSIVE recall_loop(_, _, _, _, _)
\* the outer loop of compute_list_recall from pair i on
recall_loop(gold_list, pred_list, getter_gold, getter_pred, i) ==
  IF i > ZipLen(gold_list, pred_list) THEN [tp |-> 0, fn |-> 0]
  ELSE LET g_items == _ensure_list(Call(getter_gold, gold_list[i])).v
           p_items == _ensure_list(Call(getter_pred, pred_list[i])).v
           here == items_loop(g_items, p_items, 1)
           rest == recall_loop(gold_list, pred_list, getter_gold, getter_pred, i + 1)
       IN  [tp |-> here.tp + rest.tp, fn |-> here.fn + rest.fn]

\* what the function returns for the totals of its loop
recall_result_zero(total) ==
  IF total.tp + total.fn = 0 THEN Float0 ELSE Div(total.tp, total.tp + total.fn)

recall_result(total) ==
  IF total.tp + total.fn = 0 THEN Float1 ELSE Div(total.tp, total.tp + total.fn)

RECURSIVE macro_sum(_, _, _, _, _)
\* the sum over the pairs from i on of the per-record recalls, as a fraction
macro_sum(gold_list, pred_list, getter_gold, getter_pred, i) ==
  IF i > ZipLen(gold_list, pred_list) THEN Float0
  ELSE LET g_items == _ensure_list(Call(getter_gold, gold_list[i])).v
           p_items == _ensure_list(Call(getter_pred, pred_list[i])).v
           here == recall_result(items_loop(g_items, p_items, 1))
           rest == macro_sum(gold_list, pred_list, getter_gold, getter_pred, i + 1)
       IN  Div(here[1] * rest[2] + rest[1] * here[2], here[2] * rest[2])

\* recall as the mean of the per-record recalls
compute_list_recall_macro(gold_list, pred_list, getter_gold, getter_pred) ==
  LET n == ZipLen(gold_list, pred_list)
      s == macro_sum(gold_list, pred_list, getter_gold, getter_pred, 1)
  IN  IF n = 0 THEN Float1 ELSE Div(s[1], s[2] * n)

compute_list_recall(gold_list, pred_list, getter_gold, getter_pred) ==
  recall_result(recall_loop(gold_list, pred_list, getter_gold, getter_pred, 1))

\* --------------------------------------------------- run_validation
\* the slices that are not taken: the lists as loaded
Slice_whole(list, n) == list

\* list[:n]
Slice(list, n) == SubSeq(list, 1, Min(n, Len(list)))

\* The returned dict when n == 0; no metric function is called.
NoSampleMetrics ==
  [n_samples |-> 0,
   diabetes_type_accuracy |-> Float0,
   diabetes_status_accuracy |-> Float0,
   diabetes_a1c_recall |-> Float1,
   diabetes_glucose_recall |-> Float1,
   bp_hypertension_status_accuracy |-> Float0,
   bp_readings_recall |-> Float1]

\* The returned dict built from the six metric calls on the slices.
ComputedMetrics(gold_slice, pred_slice, n) ==
  [n_samples |-> n,
   diabetes_type_accuracy |->
     compute_exact_match_accuracy(gold_slice, pred_slice,
                                  "get_diabetes_type", "get_diabetes_type"),
   diabetes_status_accuracy |->
     compute_exact_match_accuracy(gold_slice, pred_slice,
                                  "get_diabetes_status", "get_diabetes_status"),
   diabetes_a1c_recall |->
     compute_list_recall(gold_slice, pred_slice, "get_diabetes_a1c", "get_diabetes_a1c"),
   diabetes_glucose_recall |->
     compute_list_recall(gold_slice, pred_slice,
                         "get_diabetes_glucose", "get_diabetes_glucose"),
   bp_hypertension_status_accuracy |->
     compute_exact_match_accuracy(gold_slice, pred_slice, "get_bp_status", "get_bp_status"),
   bp_readings_recall |->
     compute_list_recall(gold_slice, pred_slice, "get_bp_readings", "get_bp_readings")]

\* run_validation without its n == 0 branch
run_validation_always(gold_list, pred_list) ==
  LET n == Min(Len(gold_list), Len(pred_list))
  IN  [metrics |-> ComputedMetrics(Slice(gold_list, n), Slice(pred_list, n), n),
       calls |-> 6]

\* run_validation after the two loads: the returned dict, and the number of
\* calls of compute_exact_match_accuracy and compute_list_recall it made
run_validation(gold_list, pred_list) ==
  LET n == Min(Len(gold_list), Len(pred_list))
  IN  IF n = 0 THEN [metrics |-> NoSampleMetrics, calls |-> 0]
      ELSE [metrics |-> ComputedMetrics(Slice(gold_list, n), Slice(pred_list, n), n),
            calls |-> 6]

\* ----------------------------------------------------- print_report
\* One printed line: what it is, the field it is about, and the number in it.
Line(kind, field, val) == [kind |-> kind, field |-> field, val |-> val]

Rule == Line("rule", "", 0)
Blank == Line("blank", "", 0)
Text(what) == Line("text", what, 0)

\* f"{x:.4f}": the number of ten-thousandths nearest to x (no fraction of the
\* model lies halfway between two)
Fmt4(x) == (2 * 10000 * x[1] + x[2]) \div (2 * x[2])

MetricLine(field, x) == Line("metric", field, Fmt4(x))

ReportHead(n) == <<Rule, Text("title"), Rule, Blank, Line("total", "", n)>>

ReportMetrics(metrics) ==
  <<Blank, Text("Diabetes"), Text("--------"),
    MetricLine("diabetes.type", metrics.diabetes_type_accuracy),
    MetricLine("diabetes.status", metrics.diabetes_status_accuracy),
    MetricLine("diabetes.a1c_values", metrics.diabetes_a1c_recall),
    MetricLine("diabetes.glucose_values", metrics.diabetes_glucose_recall),
    Blank, Text("Blood Pressure"), Text("---------------"),
    MetricLine("blood_pressure.hypertension_status",
               metrics.bp_hypertension_status_accuracy),
    MetricLine("blood_pressure.bp_readings", metrics.bp_readings_recall),
    Blank, Text("Metric definitions:"), Text("definition: exact-match accuracy"),
    Text("definition: recall"), Text("definition: recall, continued"), Rule>>

\* print_report without the early return of the n == 0 branch
print_report_all(metrics) == ReportHead(metrics.n_samples) \o ReportMetrics(metrics)

\* the lines print_report(metrics) prints
print_report(metrics) ==
  IF metrics.n_samples = 0
  THEN ReportHead(0) \o <<Blank, Text("No samples to evaluate. Exiting."), Rule>>
  ELSE ReportHead(metrics.n_samples) \o ReportMetrics(metrics)

\* -------------------------------------------------------- _load_json
\* A file on disk: missing, unreadable (it exists and open() fails: a
\* directory, no permission), malformed (not JSON), or JSON text holding data.
File(kind, data) == [kind |-> kind, data |-> data]

Loaded(data) == [exc |-> "", data |-> data]
Raised(exc) == [exc |-> exc, data |-> <<>>]

\* _load_json that takes a missing file for an empty list
_load_json_lenient(file) ==
  CASE file.kind = "missing" -> Loaded(<<>>)
    [] file.kind = "unreadable" -> Raised("OSError")
    [] file.kind = "malformed" -> Raised("JSONDecodeError")
    [] OTHER -> IF file.data.t # "list" THEN Raised("ValueError")
                ELSE Loaded(file.data.v)

\* _load_json(path): the list, or the exception raised
_load_json(file) ==
  CASE file.kind = "missing" -> Raised("FileNotFoundError")
    [] file.kind = "unreadable" -> Raised("OSError")
    [] file.kind = "malformed" -> Raised("JSONDecodeError")
    [] OTHER -> IF file.data.t # "list" THEN Raised("ValueError")
                ELSE Loaded(file.data.v)

\* ------------------------------------------------------------- state
VARIABLES
  gold_file,   \* the file at the gold path
  pred_file,   \* the file at the extraction path
  pc,          \* where main is
  argc,        \* len(sys.argv), 0 before the program is started
  paths,       \* "default" (GOLD_PATH, EXTRACTION_PATH) or "argv"
  loaded,      \* which of "gold", "pred" _load_json has returned
  gold_list,   \* run_validation's gold_list
  pred_list,   \* run_validation's pred_list
  metrics,     \* <<the dict run_validation returned>>, <<>> before
  calls,       \* calls of the two metric functions made so far
  exc,         \* the exception in flight, "" if none
  stdout,      \* lines printed to stdout
  stderr,      \* lines printed to stderr
  ret,         \* <<main's return value>>, <<>> before it returns
  \* data_filter.py
  input_file,     \* the file at INPUT_PATH
  output_file,    \* the file at OUTPUT_PATH: <<>> if absent, else <<its lines>>
  filter_pc,      \* where run_filter is
  filter_exc,     \* the exception run_filter raised, "" if none
  total_scanned,  \* rows read so far
  total_matched,  \* rows matched so far
  chunk_number,   \* chunks read so far
  write_header,   \* TRUE until the first to_csv
  \* main.py
  df,             \* the rows read from FILTERED_NOTES_PATH
  main_pc,        \* where main's loop is
  idx,            \* index of the row at hand
  attempt,        \* the retry loop's variable
  last_error,     \* <<the exception kept>>, <<>> for None
  results,        \* the list written to extraction_results.json
  sleeps,         \* calls of time.sleep for the row at hand
  slept,          \* <<the argument of the last of them>>, <<>> before
  invoked,        \* calls of run_extraction for the row at hand
  appended,       \* for each entry of results: the row and the place that appended it
  written         \* <<the list json.dump wrote>>, <<>> before

validate_vars == <<gold_file, pred_file, pc, argc, paths, loaded, gold_list,
                   pred_list, metrics, calls, exc, stdout, stderr, ret>>

filter_vars == <<input_file, output_file, filter_pc, filter_exc, total_scanned,
                 total_matched, chunk_number, write_header>>

extract_vars == <<df, main_pc, idx, attempt, last_error, results, sleeps, slept,
                  invoked, appended, written>>

vars == <<gold_file, pred_file, pc, argc, paths, loaded, gold_list, pred_list,
          metrics, calls, exc, stdout, stderr, ret,
          input_file, output_file, filter_pc, filter_exc, total_scanned,
          total_matched, chunk_number, write_header,
          df, main_pc, idx, attempt, last_error, results, sleeps, slept,
          invoked, appended, written>>

\* ------------------------------------------------------------ inputs
a == Str(<<"a">>)
b == Str(<<"b">>)
c == Str(<<"c">>)

\* Records whose scalar fields take every shape the getters tell apart: a
\* plain string, one with surrounding blanks, another case, a number, None,
\* "", a missing key, a missing parent and a parent that is no mapping.
A1 == Dict(<< <<"diabetes", Dict(<< <<"type", a>>, <<"status", Null>>,
                                     <<"a1c_values", List(<<a>>)>> >>)>>,
              <<"blood_pressure", Dict(<< <<"hypertension_status", EmptyStr>> >>)>> >>)

A2 == Dict(<< <<"diabetes", Dict(<< <<"type", Str(<<" ", "a">>)>>,
                                     <<"status", Str(<<"A">>)>>,
                                     <<"a1c_values", List(<<a, b>>)>> >>)>> >>)

A3 == Dict(<< <<"diabetes", Dict(<< <<"type", Num(7)>>, <<"status", a>> >>)>>,
              <<"blood_pressure", Null>> >>)

A4 == Dict(<< <<"diabetes", Dict(<< <<"status", EmptyStr>> >>)>>,
              <<"blood_pressure",
                Dict(<< <<"hypertension_status", Str(<<"b", " ">>)>> >>)>> >>)

ScalarRecords == {A1, A2, A3, A4}

\* Those of them that hold a scalar field as None, as "", without its key and
\* without its parent
AbsentRecords == {A1, A2, A4}

\* Records whose list fields take every shape: lists of one and two items in
\* both orders, items with blanks and numbers, [], None, a string and a
\* missing key or parent.
L1 == Dict(<< <<"diabetes", Dict(<< <<"type", a>>,
                                     <<"a1c_values", List(<<a, b>>)>>,
                                     <<"glucose_values", List(<<b, a>>)>> >>)>>,
              <<"blood_pressure", Dict(<< <<"bp_readings", List(<<Str(<<" ", "a">>)>>)>> >>)>> >>)

L2 == Dict(<< <<"diabetes", Dict(<< <<"a1c_values", List(<<c>>)>>,
                                     <<"glucose_values", a>> >>)>>,
              <<"blood_pressure", Dict(<< <<"bp_readings", EmptyList>> >>)>> >>)

L3 == Dict(<< <<"diabetes", Dict(<< <<"a1c_values", List(<<a>>)>>,
                                     <<"glucose_values", List(<<a, c>>)>> >>)>>,
              <<"blood_pressure", Dict(<< <<"bp_readings", List(<<a, Num(7)>>)>> >>)>> >>)

L4 == Dict(<< <<"diabetes", Dict(<< <<"type", b>>, <<"a1c_values", Null>> >>)>> >>)

ListRecords == {L1, L2, L3, L4}

\* The JSON arrays of at most MaxLen records
Arrays(records) == UNION {[1..k -> records] : k \in 0..MaxLen}

\* The files the program may find at a path: none, one it cannot open, one
\* that is not JSON, a JSON object, and the JSON arrays of records
Files(records) ==
  {File("missing", Null), File("unreadable", Null), File("malformed", Null),
   File("json", Dict(<<>>))}
  \cup {File("json", List(arr)) : arr \in Arrays(records)}

\* len(sys.argv) with no, one and two arguments after the script name
ArgCounts == {1, 2, 3}

Started ==
  /\ pc = "start"
  /\ argc = 0
  /\ paths = "default"
  /\ loaded = {}
  /\ gold_list = <<>>
  /\ pred_list = <<>>
  /\ metrics = <<>>
  /\ calls = 0
  /\ exc = ""
  /\ stdout = <<>>
  /\ stderr = <<>>
  /\ ret = <<>>

\* run_filter not started, nothing at its paths
FilterIdle ==
  /\ input_file = [kind |-> "missing", columns |-> {}, rows |-> <<>>]
  /\ output_file = <<>>
  /\ filter_pc = "idle"
  /\ filter_exc = ""
  /\ total_scanned = 0
  /\ total_matched = 0
  /\ chunk_number = 0
  /\ write_header = TRUE

\* main.py not started
ExtractIdle ==
  /\ df = <<>>
  /\ main_pc = "idle"
  /\ idx = 0
  /\ attempt = 0
  /\ last_error = <<>>
  /\ results = <<>>
  /\ sleeps = 0
  /\ slept = <<>>
  /\ invoked = 0
  /\ appended = <<>>
  /\ written = <<>>

\* main, lines 214-221: the paths, and the usage error
main_argv ==
  /\ pc = "start"
  /\ \E n \in ArgCounts :
       /\ argc' = n
       /\ IF n >= 3
          THEN paths' = "argv" /\ pc' = "load_gold" /\ UNCHANGED <<stderr, ret>>
          ELSE IF n = 2
          THEN /\ stderr' = Append(stderr, "Usage")
               /\ ret' = <<1>>
               /\ pc' = "done"
               /\ UNCHANGED paths
          ELSE pc' = "load_gold" /\ UNCHANGED <<paths, stderr, ret>>
  /\ UNCHANGED <<gold_file, pred_file, loaded, gold_list, pred_list, metrics, calls,
                 exc, stdout>>
  /\ UNCHANGED <<filter_vars, extract_vars>>

\* run_validation, line 115: gold_list = _load_json(gold_path)
load_gold ==
  /\ pc = "load_gold"
  /\ LET r == _load_json(gold_file)
     IN  IF r.exc = ""
         THEN /\ gold_list' = r.data
              /\ loaded' = loaded \cup {"gold"}
              /\ pc' = "load_pred"
              /\ UNCHANGED exc
         ELSE /\ exc' = r.exc
              /\ pc' = "except"
              /\ UNCHANGED <<gold_list, loaded>>
  /\ UNCHANGED <<gold_file, pred_file, argc, paths, pred_list, metrics, calls,
                 stdout, stderr, ret>>
  /\ UNCHANGED <<filter_vars, extract_vars>>

\* run_validation, line 116: pred_list = _load_json(extraction_path)
load_pred ==
  /\ pc = "load_pred"
  /\ LET r == _load_json(pred_file)
     IN  IF r.exc = ""
         THEN /\ pred_list' = r.data
              /\ loaded' = loaded \cup {"pred"}
              /\ pc' = "compute"
              /\ UNCHANGED exc
         ELSE /\ exc' = r.exc
              /\ pc' = "except"
              /\ UNCHANGED <<pred_list, loaded>>
  /\ UNCHANGED <<gold_file, pred_file, argc, paths, gold_list, metrics, calls,
                 stdout, stderr, ret>>
  /\ UNCHANGED <<filter_vars, extract_vars>>

\* run_validation, lines 119-176, and main's metrics = run_validation(...)
compute ==
  /\ pc = "compute"
  /\ LET r == run_validation(gold_list, pred_list)
     IN  /\ metrics' = <<r.metrics>>
         /\ calls' = calls + r.calls
  /\ pc' = "report"
  /\ UNCHANGED <<gold_file, pred_file, argc, paths, loaded, gold_list, pred_list,
                 exc, stdout, stderr, ret>>
  /\ UNCHANGED <<filter_vars, extract_vars>>

\* main, line 224: print_report(metrics)
report ==
  /\ pc = "report"
  /\ stdout' = stdout \o print_report(metrics[1])
  /\ pc' = "return"
  /\ UNCHANGED <<gold_file, pred_file, argc, paths, loaded, gold_list, pred_list,
                 metrics, calls, exc, stderr, ret>>
  /\ UNCHANGED <<filter_vars, extract_vars>>

\* main, line 225: return 0
main_return ==
  /\ pc = "return"
  /\ ret' = <<0>>
  /\ pc' = "done"
  /\ UNCHANGED <<gold_file, pred_file, argc, paths, loaded, gold_list, pred_list,
                 metrics, calls, exc, stdout, stderr>>
  /\ UNCHANGED <<filter_vars, extract_vars>>

\* the exceptions main's two except clauses catch
Caught == {"FileNotFoundError", "ValueError", "JSONDecodeError"}

\* main, lines 226-231: print the error to stderr and return 1
main_except ==
  /\ pc = "except"
  /\ exc \in Caught
  /\ stderr' = Append(stderr, "Error")
  /\ ret' = <<1>>
  /\ exc' = ""
  /\ pc' = "done"
  /\ UNCHANGED <<gold_file, pred_file, argc, paths, loaded, gold_list, pred_list,
                 metrics, calls, stdout>>
  /\ UNCHANGED <<filter_vars, extract_vars>>

\* an exception no except clause of main names leaves main without a return
\* value; the interpreter prints the traceback
main_uncaught ==
  /\ pc = "except"
  /\ exc \notin Caught
  /\ stderr' = Append(stderr, "Traceback")
  /\ pc' = "crashed"
  /\ UNCHANGED <<gold_file, pred_file, argc, paths, loaded, gold_list, pred_list,
                 metrics, calls, exc, stdout, ret>>
  /\ UNCHANGED <<filter_vars, extract_vars>>

Next ==
  \/ main_argv
  \/ load_gold
  \/ load_pred
  \/ compute
  \/ report
  \/ main_return
  \/ main_except
  \/ main_uncaught

Init ==
  /\ gold_file \in Files(ScalarRecords)
  /\ pred_file \in Files(ScalarRecords)
  /\ Started
  /\ FilterIdle
  /\ ExtractIdle

Spec == Init /\ [][Next]_vars

InitAbsent ==
  /\ gold_file \in Files(AbsentRecords)
  /\ pred_file \in Files(AbsentRecords)
  /\ Started
  /\ FilterIdle
  /\ ExtractIdle

SpecAbsent == InitAbsent /\ [][Next]_vars

InitRecall ==
  /\ gold_file \in Files(ListRecords)
  /\ pred_file \in Files(ListRecords)
  /\ Started
  /\ FilterIdle
  /\ ExtractIdle

SpecRecall == InitRecall /\ [][Next]_vars

\* ============================================================ claims
\* What the claims speak of, stated from the claims' words and not through
\* the loops above.

\* run_validation has just returned its dict to main: the state in which the
\* claims about the returned values are read (nothing later changes metrics,
\* gold_list or pred_list)
Computed == pc = "report"

\* min(len(gold), len(pred)) and the aligned records
AlignedN == Min(Len(gold_list), Len(pred_list))
GoldAligned == SubSeq(gold_list, 1, AlignedN)
PredAligned == SubSeq(pred_list, 1, AlignedN)

SameValue(x, y) == x.t = y.t /\ x.v = y.v

\* None or the empty string is the empty string, anything else its
\* stringification with the surrounding whitespace stripped
NormalizedValue(x) ==
  IF x.t = "null" THEN <<>>
  ELSE IF x.t = "str" /\ Len(x.v) = 0 THEN <<>>
  ELSE Strip(PyStr(x))

\* the positions whose normalized gold value equals the normalized predicted one
CorrectPositions(gold, pred, gg, gp) ==
  {i \in 1..Len(gold) :
     NormalizedValue(Call(gg, gold[i])) = NormalizedValue(Call(gp, pred[i]))}

\* the metric run_validation reports for a getter
MetricOf(m, getter) ==
  CASE getter = "get_diabetes_type" -> m.diabetes_type_accuracy
    [] getter = "get_diabetes_status" -> m.diabetes_status_accuracy
    [] getter = "get_bp_status" -> m.bp_hypertension_status_accuracy
    [] getter = "get_diabetes_a1c" -> m.diabetes_a1c_recall
    [] getter = "get_diabetes_glucose" -> m.diabetes_glucose_recall
    [] getter = "get_bp_readings" -> m.bp_readings_recall

\* C1: on two aligned sequences of equal length n, for any pair of getters,
\* compute_exact_match_accuracy returns 0.0 when n = 0 and otherwise
\* correct / n, correct the number of positions whose normalized values are
\* equal; the result lies between 0 and 1.  The accuracies run_validation
\* reports are these values.
C1_AccuracyIsCorrectOverN ==
  Computed =>
    \A gg \in ScalarGetters, gp \in ScalarGetters :
      LET n == Len(GoldAligned)
          correct == Cardinality(CorrectPositions(GoldAligned, PredAligned, gg, gp))
          r == compute_exact_match_accuracy(GoldAligned, PredAligned, gg, gp)
      IN  /\ n = 0 => r = Float0
          /\ n > 0 => r[1] * n = correct * r[2]
          /\ r[2] > 0 /\ 0 <= r[1] /\ r[1] <= r[2]
          /\ (n > 0 /\ gg = gp) => MetricOf(metrics[1], gg) = r

\* C1 witness: two records were scored, one of them correct only because the
\* blanks around the predicted value are stripped, and the accuracy is 1/2.
C1_Witness ==
  /\ Computed
  /\ AlignedN = 2
  /\ metrics[1].diabetes_type_accuracy = <<1, 2>>
  /\ \E i \in 1..2 :
       /\ ~SameValue(get_diabetes_type(gold_list[i]), get_diabetes_type(pred_list[i]))
       /\ i \in CorrectPositions(GoldAligned, PredAligned,
                                 "get_diabetes_type", "get_diabetes_type")

\* every predicted scalar (the getter's value) differs from the gold scalar
\* at the same position
AllScalarsDiffer(getter) ==
  \A i \in 1..AlignedN :
    ~SameValue(Call(getter, gold_list[i]), Call(getter, pred_list[i]))

\* every normalized predicted scalar differs from the normalized gold scalar
AllNormalizedDiffer(getter) ==
  \A i \in 1..AlignedN :
    NormalizedValue(Call(getter, gold_list[i])) # NormalizedValue(Call(getter, pred_list[i]))

\* C2 as stated: when every predicted scalar differs from the gold scalar at
\* the same position, the accuracy is 0.0.
C2_DifferentScalarsScoreZero ==
  Computed =>
    \A getter \in ScalarGetters :
      AllScalarsDiffer(getter) => MetricOf(metrics[1], getter) = Float0

\* C2 as amended: when every predicted scalar differs from the gold scalar at
\* the same position after normalization (None and "" to "", anything else
\* stringified and stripped), the accuracy is 0.0.
C2_DifferentNormalizedScoreZero ==
  Computed =>
    \A getter \in ScalarGetters :
      AllNormalizedDiffer(getter) =>
        /\ MetricOf(metrics[1], getter) = Float0
        /\ compute_exact_match_accuracy(GoldAligned, PredAligned, getter, getter) = Float0

\* C2 witness: two records were scored, the statuses differ only by case at
\* one position and altogether at the other, and the status accuracy is 0.0.
C2_Witness ==
  /\ Computed
  /\ AlignedN = 2
  /\ AllNormalizedDiffer("get_diabetes_status")
  /\ \E i \in 1..2 :
       /\ NormalizedValue(get_diabetes_status(gold_list[i])) = <<"A">>
       /\ NormalizedValue(get_diabetes_status(pred_list[i])) = <<"a">>
  /\ metrics[1].diabetes_status_accuracy = Float0

\* ------------------------------------------------- rewriting a record
\* d without key
WithoutKey(d, key) ==
  Dict(SelectSeq(d.v, LAMBDA pair : pair[1] # key))

\* d with d[key] = val
WithKey(d, key, val) ==
  IF HasKey(d, key)
  THEN Dict([i \in 1..Len(d.v) |-> IF d.v[i][1] = key THEN <<key, val>> ELSE d.v[i]])
  ELSE Dict(Append(d.v, <<key, val>>))

\* list with its i-th element replaced
ReplaceAt(list, i, val) == [list EXCEPT ![i] = val]

\* the (parent, key) paths of the scalar fields
ScalarFields ==
  {<<"diabetes", "type">>, <<"diabetes", "status">>,
   <<"blood_pressure", "hypertension_status">>}

\* the parent mapping of a field of a record, {} when it is missing
ParentOf(obj, field) ==
  IF HasKey(obj, field[1]) /\ Lookup(obj, field[1]).t = "dict"
  THEN Lookup(obj, field[1])
  ELSE Dict(<<>>)

\* How a record of mapping shape holds a scalar field: "absent" (the key or
\* its parent mapping is missing), "none", "empty" (the empty string), or
\* "other".
FormOf(obj, field) ==
  IF obj.t # "dict" THEN "other"
  ELSE IF ~HasKey(ParentOf(obj, field), field[2]) THEN "absent"
  ELSE LET val == Lookup(ParentOf(obj, field), field[2])
       IN  IF val.t = "null" THEN "none"
           ELSE IF val.t = "str" /\ val.v = <<>> THEN "empty"
           ELSE "other"

\* The records that hold the field in another way as None, as "", without the
\* key, and (when the parent holds nothing else) without the parent or with
\* null for it, everything else kept.
Replacements(obj, field) ==
  LET parent == ParentOf(obj, field)
      siblings == WithoutKey(parent, field[2])
  IN  ({WithKey(obj, field[1], WithKey(parent, field[2], Null)),
        WithKey(obj, field[1], WithKey(parent, field[2], EmptyStr)),
        WithKey(obj, field[1], siblings)}
       \cup (IF siblings.v = <<>>
             THEN {WithoutKey(obj, field[1]), WithKey(obj, field[1], Null)}
             ELSE {}))
      \ {obj}

Accuracies(m) ==
  <<m.diabetes_type_accuracy, m.diabetes_status_accuracy,
    m.bp_hypertension_status_accuracy>>

\* C3: a scalar field that is None, the empty string or absent (the key or its
\* parent mapping is missing) counts the same: replacing one of the three by
\* another in any gold or predicted record changes no accuracy run_validation
\* returns.
C3_NoneEmptyAbsentAlike ==
  Computed =>
    \A field \in ScalarFields :
      /\ \A i \in 1..Len(gold_list) :
           FormOf(gold_list[i], field) # "other" =>
             \A r \in Replacements(gold_list[i], field) :
               Accuracies(run_validation(ReplaceAt(gold_list, i, r), pred_list).metrics)
                 = Accuracies(metrics[1])
      /\ \A i \in 1..Len(pred_list) :
           FormOf(pred_list[i], field) # "other" =>
             \A r \in Replacements(pred_list[i], field) :
               Accuracies(run_validation(gold_list, ReplaceAt(pred_list, i, r)).metrics)
                 = Accuracies(metrics[1])

\* C3 witness: a gold record holds the status as None where the predicted
\* record holds it as "", a gold record holds the hypertension status as ""
\* where the predicted record has no blood_pressure mapping at all, and both
\* positions were counted as correct.
C3_Witness ==
  /\ Computed
  /\ AlignedN = 2
  /\ \E i \in 1..2 :
       /\ FormOf(gold_list[i], <<"diabetes", "status">>) = "none"
       /\ FormOf(pred_list[i], <<"diabetes", "status">>) = "empty"
       /\ metrics[1].diabetes_status_accuracy[1] >= 1
  /\ \E i \in 1..2 :
       /\ FormOf(gold_list[i], <<"blood_pressure", "hypertension_status">>) = "empty"
       /\ ~HasKey(pred_list[i], "blood_pressure")
       /\ metrics[1].bp_hypertension_status_accuracy[1] >= 1

\* ------------------------------------------------------------ recall
\* the field a list getter reads
FieldOf(getter) ==
  CASE getter = "get_diabetes_a1c" -> <<"diabetes", "a1c_values">>
    [] getter = "get_diabetes_glucose" -> <<"diabetes", "glucose_values">>
    [] getter = "get_bp_readings" -> <<"blood_pressure", "bp_readings">>

\* the stripped string of an item
ItemText(item) == Strip(PyStr(item))

\* the texts of a record's predicted items
PredTexts(pred, getter) ==
  {ItemText(Call(getter, pred).v[k]) : k \in 1..Len(Call(getter, pred).v)}

\* the gold items (by index) of one pair that occur in its predicted list,
\* and those that do not
TruePositives(gold, pred, getter) ==
  {j \in 1..Len(Call(getter, gold).v) :
     ItemText(Call(getter, gold).v[j]) \in PredTexts(pred, getter)}

FalseNegatives(gold, pred, getter) ==
  {j \in 1..Len(Call(getter, gold).v) :
     ItemText(Call(getter, gold).v[j]) \notin PredTexts(pred, getter)}

RECURSIVE SumTo(_, _)
\* f[1] + ... + f[n]
SumTo(f, n) == IF n = 0 THEN 0 ELSE f[n] + SumTo(f, n - 1)

TotalTP(gold, pred, getter) ==
  SumTo([i \in 1..Len(gold) |->
           Cardinality(TruePositives(gold[i], pred[i], getter))], Len(gold))

TotalFN(gold, pred, getter) ==
  SumTo([i \in 1..Len(gold) |->
           Cardinality(FalseNegatives(gold[i], pred[i], getter))], Len(gold))

\* C4: compute_list_recall is micro-averaged: it returns the sum over all
\* aligned pairs of the true positives divided by the sum of the true
\* positives and the false negatives (1.0 when that sum is 0), and the recalls
\* run_validation reports are these values.
C4_RecallIsMicroAveraged ==
  Computed =>
    \A getter \in ListGetters :
      LET tp == TotalTP(GoldAligned, PredAligned, getter)
          fn == TotalFN(GoldAligned, PredAligned, getter)
          r == compute_list_recall(GoldAligned, PredAligned, getter, getter)
      IN  /\ r[2] > 0
          /\ r[1] * (tp + fn) = tp * r[2]
          /\ MetricOf(metrics[1], getter) = r

\* C4 witness: the spec's example, gold [a, b] against [a] and gold [c]
\* against [c]: the recall is 2/3 where the mean of the two records' recalls
\* is 3/4.
C4_Witness ==
  /\ Computed
  /\ AlignedN = 2
  /\ get_diabetes_a1c(gold_list[1]).v = <<a, b>>
  /\ get_diabetes_a1c(pred_list[1]).v = <<a>>
  /\ get_diabetes_a1c(gold_list[2]).v = <<c>>
  /\ get_diabetes_a1c(pred_list[2]).v = <<c>>
  /\ metrics[1].diabetes_a1c_recall = <<2, 3>>
  /\ compute_list_recall_macro(gold_list, pred_list,
                               "get_diabetes_a1c", "get_diabetes_a1c") = <<3, 4>>

\* a predicted record with the items of a list field replaced
WithItems(pred, getter, items) ==
  WithKey(pred, FieldOf(getter)[1],
          WithKey(ParentOf(pred, FieldOf(getter)), FieldOf(getter)[2], List(items)))

\* the record holds the getter's field as a list
HoldsList(obj, getter) ==
  /\ obj.t = "dict"
  /\ HasKey(ParentOf(obj, FieldOf(getter)), FieldOf(getter)[2])
  /\ Lookup(ParentOf(obj, FieldOf(getter)), FieldOf(getter)[2]).t = "list"

\* items a prediction may hold beside the gold ones
ExtraItems == {a, c, Str(<<"b", " ">>), Num(7)}

\* the item's text equals no gold item's text of the record
Unmatched(item, gold, getter) ==
  \A j \in 1..Len(Call(getter, gold).v) :
    ItemText(item) # ItemText(Call(getter, gold).v[j])

\* seq with item put before position k
InsertAt(seq, k, item) ==
  SubSeq(seq, 1, k - 1) \o <<item>> \o SubSeq(seq, k, Len(seq))

\* seq without its k-th element
RemoveAt(seq, k) == SubSeq(seq, 1, k - 1) \o SubSeq(seq, k + 1, Len(seq))

\* The predicted lists the claim says count the same as items: its
\* permutations, and the lists with one item added or removed whose text
\* equals no gold item's of the same record.
SameForRecall(items, gold, getter) ==
  {[k \in 1..Len(items) |-> items[perm[k]]] : perm \in Permutations(1..Len(items))}
  \cup {InsertAt(items, k, x) :
          k \in 1..(Len(items) + 1), x \in {y \in ExtraItems : Unmatched(y, gold, getter)}}
  \cup {RemoveAt(items, k) :
          k \in {j \in 1..Len(items) : Unmatched(items[j], gold, getter)}}

\* C5: the recall depends on a predicted list only through which gold items
\* of the same record occur in it: permuting a predicted list, and adding or
\* removing a predicted item whose stripped string equals no gold item of
\* that record, leave the result of compute_list_recall unchanged.
C5_RecallIgnoresOrderAndExtras ==
  Computed =>
    \A getter \in ListGetters :
      \A i \in 1..AlignedN :
        HoldsList(pred_list[i], getter) =>
          \A items \in SameForRecall(Call(getter, pred_list[i]).v, gold_list[i], getter) :
            compute_list_recall(
              GoldAligned,
              ReplaceAt(PredAligned, i, WithItems(pred_list[i], getter, items)),
              getter, getter)
              = MetricOf(metrics[1], getter)

\* C5 witness: a predicted list of two different items, one of them a gold
\* item and the other not, against a gold list with an item the prediction
\* misses: the recall is 1/2, and the list has a permutation and a removal.
C5_Witness ==
  /\ Computed
  /\ AlignedN = 1
  /\ Len(get_diabetes_glucose(pred_list[1]).v) = 2
  /\ ~Unmatched(get_diabetes_glucose(pred_list[1]).v[1], gold_list[1], "get_diabetes_glucose")
  /\ Unmatched(get_diabetes_glucose(pred_list[1]).v[2], gold_list[1], "get_diabetes_glucose")
  /\ Cardinality(SameForRecall(get_diabetes_glucose(pred_list[1]).v, gold_list[1],
                               "get_diabetes_glucose")) > 3
  /\ metrics[1].diabetes_glucose_recall = <<1, 2>>

\* the record holds no item in the getter's field: the field is an empty list,
\* missing, null or not a list
NoGoldItems(obj, getter) ==
  ~(HoldsList(obj, getter)
    /\ Lookup(ParentOf(obj, FieldOf(getter)), FieldOf(getter)[2]).v # <<>>)

\* C6: when every gold record's list field is empty, missing, null or not a
\* list, compute_list_recall returns 1.0 whatever the predicted records hold,
\* zero records included.
C6_NoGoldItemsRecallOne ==
  Computed =>
    \A getter \in ListGetters :
      (\A i \in 1..Len(gold_list) : NoGoldItems(gold_list[i], getter)) =>
        /\ compute_list_recall(gold_list, pred_list, getter, getter) = Float1
        /\ compute_list_recall(GoldAligned, PredAligned, getter, getter) = Float1
        /\ MetricOf(metrics[1], getter) = Float1

\* C6 witness: two gold records whose bp_readings are [] and missing were
\* scored against predictions that hold readings, and the recall is 1.0.
C6_Witness ==
  /\ Computed
  /\ AlignedN = 2
  /\ \A i \in 1..2 : NoGoldItems(gold_list[i], "get_bp_readings")
  /\ \E i \in 1..2 : ~HasKey(gold_list[i], "blood_pressure")
  /\ \E i \in 1..2 : HoldsList(gold_list[i], "get_bp_readings")
  /\ \A i \in 1..2 : ~NoGoldItems(pred_list[i], "get_bp_readings")
  /\ metrics[1].bp_readings_recall = Float1

\* --------------------------------------------------------- the run
BothLoaded == loaded = {"gold", "pred"}

\* correct / n over the aligned pairs, 0.0 for none
AccuracyOver(gold, pred, getter) ==
  IF Len(gold) = 0 THEN Float0
  ELSE Div(Cardinality(CorrectPositions(gold, pred, getter, getter)), Len(gold))

\* total TP / (total TP + total FN) over the aligned pairs, 1.0 for 0 / 0
RecallOver(gold, pred, getter) ==
  IF TotalTP(gold, pred, getter) + TotalFN(gold, pred, getter) = 0 THEN Float1
  ELSE Div(TotalTP(gold, pred, getter),
           TotalTP(gold, pred, getter) + TotalFN(gold, pred, getter))

\* C7: with lists of different lengths run_validation raises nothing and
\* scores the first min(len(gold), len(pred)) positions only: n_samples is
\* that minimum, every metric is its value over exactly those pairs, and the
\* records past the shorter length change nothing.
C7_ScoresAlignedPrefixOnly ==
  /\ BothLoaded => (exc = "" /\ pc # "except" /\ pc # "crashed")
  /\ Computed =>
       /\ metrics[1].n_samples = AlignedN
       /\ \A getter \in ScalarGetters :
            MetricOf(metrics[1], getter) = AccuracyOver(GoldAligned, PredAligned, getter)
       /\ \A getter \in ListGetters :
            MetricOf(metrics[1], getter) = RecallOver(GoldAligned, PredAligned, getter)
       /\ run_validation(GoldAligned, PredAligned).metrics = metrics[1]

\* C7 witness: two gold records were scored against one predicted record
\* without an exception, and the one aligned pair was correct on the type: the
\* accuracy is 1/1, not 1/2.
C7_Witness ==
  /\ Computed
  /\ exc = ""
  /\ Len(gold_list) = 2
  /\ Len(pred_list) = 1
  /\ metrics[1].n_samples = 1
  /\ gold_list[2] # gold_list[1]
  /\ metrics[1].diabetes_type_accuracy = Float1

\* the lines of a report that shows the sample count 0 and the no-samples
\* notice
NoSamplesReport ==
  <<Rule, Text("title"), Rule, Blank, Line("total", "", 0),
    Blank, Text("No samples to evaluate. Exiting."), Rule>>

\* C8: when the aligned sample count is 0 no metric function is called, the
\* report is the sample count and the no-samples notice without any metric
\* line, and main returns 0.
C8_NoSamplesBranch ==
  (BothLoaded /\ AlignedN = 0) =>
    /\ calls = 0
    /\ \A k \in 1..Len(stdout) : stdout[k].kind # "metric"
    /\ pc \in {"return", "done"} => stdout = NoSamplesReport
    /\ pc = "done" => ret = <<0>>
    /\ pc \in {"compute", "report", "return", "done"}

\* C8 witness: the run on two empty arrays has ended, with the report printed.
C8_Witness ==
  /\ pc = "done"
  /\ gold_file = File("json", EmptyList)
  /\ pred_file = File("json", EmptyList)
  /\ Len(stdout) = 8
  /\ ret = <<0>>

\* what a string or a sequence of strings is
IsString(x) == x.t = "str"
IsStringSeq(x) == x.t = "list" /\ \A k \in 1..Len(x.v) : x.v[k].t = "str"

\* the paths run_validation asks for
AccessPaths ==
  {<<"diabetes", "type">>, <<"diabetes", "status">>, <<"diabetes", "a1c_values">>,
   <<"diabetes", "glucose_values">>, <<"blood_pressure", "hypertension_status">>,
   <<"blood_pressure", "bp_readings">>}

LoadedRecords ==
  {gold_list[i] : i \in 1..Len(gold_list)} \cup {pred_list[i] : i \in 1..Len(pred_list)}

\* C9 as stated: for every record, every path and either value of the
\* want-list flag, _get_nested returns a string or a sequence of strings.
C9_AccessorReturnsStringOrStrings ==
  \A obj \in LoadedRecords, path \in AccessPaths, default_list \in {Null, EmptyList} :
    \/ IsString(_get_nested(obj, path, default_list))
    \/ IsStringSeq(_get_nested(obj, path, default_list))

\* the files _load_json raises on with an exception main reports
Rejected(file) ==
  \/ file.kind \in {"missing", "malformed"}
  \/ file.kind = "json" /\ file.data.t # "list"

LoadsFine(file) == file.kind = "json" /\ file.data.t = "list"

\* C10: main returns 0 exactly when both files loaded and the report was
\* printed; it returns 1 on the usage error and on a gold or prediction file
\* that is missing, malformed or no JSON array; and whenever it returns 1
\* nothing was printed to stdout and no metric was computed, both files being
\* loaded before any metric is computed or printed.
C10_ExitCodes ==
  /\ ret \in {<<>>, <<0>>, <<1>>}
  /\ ret = <<0>> <=> (pc = "done" /\ BothLoaded /\ metrics # <<>>
                      /\ stdout = print_report(metrics[1]))
  /\ pc \in {"done", "crashed"} =>
       /\ argc = 2 => ret = <<1>>
       /\ (argc # 2 /\ Rejected(gold_file)) => ret = <<1>>
       /\ (argc # 2 /\ LoadsFine(gold_file) /\ Rejected(pred_file)) => ret = <<1>>
  /\ ret = <<1>> => (stdout = <<>> /\ metrics = <<>> /\ calls = 0 /\ Len(stderr) = 1)
  /\ (metrics # <<>> \/ calls > 0 \/ stdout # <<>>) => BothLoaded

\* C10 witness: the gold file loaded, the prediction file is malformed, and
\* main has returned 1 with the one error line and nothing on stdout.
C10_Witness ==
  /\ pc = "done"
  /\ ret = <<1>>
  /\ loaded = {"gold"}
  /\ Len(gold_list) = 2
  /\ pred_file.kind = "malformed"
  /\ stdout = <<>>
  /\ stderr = <<"Error">>

\* ===================================================== data_filter.py
\* str.lower() on ASCII letters
UpperCase == <<"A", "B", "C", "D", "E", "F", "G", "H", "I", "J", "K", "L", "M",
               "N", "O", "P", "Q", "R", "S", "T", "U", "V", "W", "X", "Y", "Z">>
LowerCase == <<"a", "b", "c", "d", "e", "f", "g", "h", "i", "j", "k", "l", "m",
               "n", "o", "p", "q", "r", "s", "t", "u", "v", "w", "x", "y", "z">>

lower_char(ch) ==
  IF \E i \in 1..Len(UpperCase) : UpperCase[i] = ch
  THEN LowerCase[CHOOSE i \in 1..Len(UpperCase) : UpperCase[i] = ch]
  ELSE ch

lower(s) == [i \in 1..Len(s) |-> lower_char(s[i])]

\* sub in s  (both str)
Contains(s, sub) ==
  \E i \in 0..(Len(s) - Len(sub)) : SubSeq(s, i + 1, i + Len(sub)) = sub

KEYWORDS ==
  << <<"d", "i", "a", "b", "e", "t", "e", "s">>,
     <<"h", "y", "p", "e", "r", "t", "e", "n", "s", "i", "o", "n">>,
     <<"a", "1", "c">> >>

\* lines 40-45; a NaN cell is Null
_text_matches(row_text) ==
  IF row_text = Null THEN FALSE
  ELSE \E k \in 1..Len(KEYWORDS) : Contains(lower(PyStr(row_text)), KEYWORDS[k])

\* chunksize of pd.read_csv; the program's CHUNK_SIZE is 10_000, the model
\* reads files of a few rows in chunks of this many
CHUNK_SIZE == 2

\* the longest input file
MaxRows == 3

\* a CSV file's lines: the header, and one line per row, which carries the
\* row's number in the file it was read from and its text cell
HeaderLine == [kind |-> "header", n |-> 0, text |-> Null]
RowLine(n, text) == [kind |-> "row", n |-> n, text |-> text]

\* DataFrame.to_csv(path, mode, header, index=False) on the matched rows:
\* "w" truncates, "a" appends to what is there and creates what is not
to_csv(file, lines, mode, header) ==
  LET written_lines == (IF header THEN <<HeaderLine>> ELSE <<>>) \o lines
  IN IF mode = "a" /\ file # <<>> THEN <<file[1] \o written_lines>>
     ELSE <<written_lines>>

\* rows first..last of the file whose text matches, as lines, in order
RECURSIVE matched_lines(_, _, _)
matched_lines(rows, first, last) ==
  IF first > last THEN <<>>
  ELSE (IF _text_matches(rows[first]) THEN <<RowLine(first, rows[first])>> ELSE <<>>)
       \o matched_lines(rows, first + 1, last)

\* lines 53-63
filter_start ==
  /\ filter_pc = "start"
  /\ IF input_file.kind = "missing"
     THEN filter_exc' = "FileNotFoundError" /\ filter_pc' = "raised"
     ELSE filter_exc' = "" /\ filter_pc' = "loop"
  /\ total_scanned' = 0
  /\ total_matched' = 0
  /\ chunk_number' = 0
  /\ write_header' = TRUE
  /\ UNCHANGED <<input_file, output_file>>
  /\ UNCHANGED <<validate_vars, extract_vars>>

\* lines 65-98: one iteration of the loop over the chunks
filter_chunk ==
  /\ filter_pc = "loop"
  /\ total_scanned < Len(input_file.rows)
  /\ chunk_number' = chunk_number + 1
  /\ IF "text" \notin input_file.columns
     THEN /\ filter_exc' = "ValueError"
          /\ filter_pc' = "raised"
          /\ UNCHANGED <<output_file, total_scanned, total_matched, write_header>>
     ELSE LET last == Min(total_scanned + CHUNK_SIZE, Len(input_file.rows))
              matched_chunk == matched_lines(input_file.rows, total_scanned + 1, last)
              matched_count == Len(matched_chunk)
          IN /\ total_scanned' = last
             /\ total_matched' = total_matched + matched_count
             /\ IF matched_count > 0
                THEN /\ output_file' = to_csv(output_file, matched_chunk,
                                              IF write_header THEN "w" ELSE "a",
                                              write_header)
                     /\ write_header' = FALSE
                ELSE UNCHANGED <<output_file, write_header>>
             /\ UNCHANGED <<filter_pc, filter_exc>>
  /\ UNCHANGED input_file
  /\ UNCHANGED <<validate_vars, extract_vars>>

\* lines 100-105: the chunks are exhausted, run_filter returns
filter_return ==
  /\ filter_pc = "loop"
  /\ total_scanned = Len(input_file.rows)
  /\ filter_pc' = "done"
  /\ UNCHANGED <<input_file, output_file, filter_exc, total_scanned, total_matched,
                 chunk_number, write_header>>
  /\ UNCHANGED <<validate_vars, extract_vars>>

NextFilter ==
  \/ filter_start
  \/ filter_chunk
  \/ filter_return

\* text cells: NaN, and strings with and without a keyword in either case
NoKeyword == Str(<<"a", "1">>)
HbA1C == Str(<<"H", "b", "A", "1", "C">>)
Diabetes == Str(<<"D", "i", "a", "b", "e", "t", "e", "s">>)
hypertension == Str(<<"h", "y", "p", "e", "r", "t", "e", "n", "s", "i", "o", "n">>)
TextCells == {Null, NoKeyword, HbA1C, Diabetes, hypertension}

\* the files run_filter may find at INPUT_PATH: none, one without a text
\* column, and the files of up to MaxRows rows with one
InputFiles ==
  {[kind |-> "missing", columns |-> {}, rows |-> <<>>],
   [kind |-> "csv", columns |-> {"note_id"}, rows |-> <<Null>>]}
  \cup {[kind |-> "csv", columns |-> {"note_id", "text"}, rows |-> rows] :
          rows \in UNION {[1..k -> TextCells] : k \in 0..MaxRows}}

\* what may be at OUTPUT_PATH before the run: nothing, or the output of an
\* earlier run on another input
OutputFiles == {<<>>, <<<<HeaderLine, RowLine(1, hypertension), RowLine(2, HbA1C)>>>>}

NoFiles == File("missing", Null)

InitFilter ==
  /\ gold_file = NoFiles
  /\ pred_file = NoFiles
  /\ Started
  /\ ExtractIdle
  /\ input_file \in InputFiles
  /\ output_file \in OutputFiles
  /\ filter_pc = "start"
  /\ filter_exc = ""
  /\ total_scanned = 0
  /\ total_matched = 0
  /\ chunk_number = 0
  /\ write_header = TRUE

SpecFilter == InitFilter /\ [][NextFilter]_vars

\* ------------------------------------------------------------ claim C11
\* the header and every matching row of the input, in input order
ExpectedOutput ==
  <<HeaderLine>> \o matched_lines(input_file.rows, 1, Len(input_file.rows))

\* C11: after run_filter completes without error on an existing input, the
\* output CSV exists and holds the header row exactly once followed by
\* exactly the rows whose text contains a keyword (case-insensitive), in
\* input order across all chunks.
C11_OutputHoldsHeaderAndMatches ==
  filter_pc = "done" => output_file = <<ExpectedOutput>>

\* C11, the part that holds: when at least one row matches, the output is the
\* header once and the matching rows in input order, whatever was at the
\* path before, and what an earlier chunk wrote stays a prefix of the file.
C11_MatchesWritten ==
  /\ (filter_pc = "done" /\ total_matched > 0) => output_file = <<ExpectedOutput>>
  /\ (filter_pc \in {"loop", "done"} /\ ~write_header) =>
       output_file = <<<<HeaderLine>> \o matched_lines(input_file.rows, 1, total_scanned)>>

\* C11, where it fails: run_filter has returned on an input none of whose
\* rows matches, and no output file was created.
C11_NoMatchNoFile ==
  /\ filter_pc = "done"
  /\ filter_exc = ""
  /\ Len(input_file.rows) > CHUNK_SIZE
  /\ total_matched = 0
  /\ output_file = <<>>

\* ================================================ extraction.py, main.py
\* the result of a call: a value returned or an exception raised
Return(value) == [raised |-> FALSE, type |-> "", msg |-> <<>>, value |-> value]
Raise(type, msg) == [raised |-> TRUE, type |-> type, msg |-> msg, value |-> Null]

\* isinstance(obj[key], dict) with the key present
HasDict(obj, key) == HasKey(obj, key) /\ Lookup(obj, key).t = "dict"

\* the validation without its last check: any abnormal_markers passes
_validate_schema_no_array(obj) ==
  IF obj.t # "dict" THEN <<"Root must be a JSON object">>
  ELSE IF ~HasDict(obj, "diabetes") THEN <<"Missing or invalid 'diabetes' object">>
  ELSE IF ~HasDict(obj, "blood_pressure")
  THEN <<"Missing or invalid 'blood_pressure' object">>
  ELSE IF ~HasKey(obj, "patient_id") THEN <<"Missing required key: patient_id">>
  ELSE IF ~HasKey(obj, "abnormal_markers")
  THEN <<"Missing required key: abnormal_markers">>
  ELSE <<>>

\* extraction.py lines 36-48: the message of the ValueError raised, <<>> when
\* the object passes.  A message nothing looks into is kept in one piece.
_validate_schema(obj) ==
  IF obj.t # "dict" THEN <<"Root must be a JSON object">>
  ELSE IF ~HasDict(obj, "diabetes") THEN <<"Missing or invalid 'diabetes' object">>
  ELSE IF ~HasDict(obj, "blood_pressure")
  THEN <<"Missing or invalid 'blood_pressure' object">>
  ELSE IF ~HasKey(obj, "patient_id") THEN <<"Missing required key: patient_id">>
  ELSE IF ~HasKey(obj, "abnormal_markers")
  THEN <<"Missing required key: abnormal_markers">>
  ELSE IF Lookup(obj, "abnormal_markers").t # "list"
  THEN <<"'abnormal_markers' must be an array">>
  ELSE <<>>

\* extraction.py lines 51-70.  kickoff is what crew.kickoff() did: it raised,
\* or it gave text that json.loads rejects, or text that parses to kickoff.obj
run_extraction(kickoff) ==
  IF kickoff.kind = "raise" THEN Raise(kickoff.type, kickoff.msg)
  ELSE IF kickoff.kind = "text" THEN Raise("ValueError", <<"Agent output is not valid JSON">>)
  ELSE LET invalid == _validate_schema(kickoff.obj)
       IN IF invalid # <<>> THEN Raise("ValueError", invalid)
          ELSE Return(kickoff.obj)

MAX_429_RETRIES == 3
DEFAULT_429_WAIT_SEC == 32

\* the longest wait, line 97
MAX_WAIT_SEC == 120

\* waits are counted in hundredths of a second
Seconds(n) == n * 100

IsDigit(ch) == ch \in {"0", "1", "2", "3", "4", "5", "6", "7", "8", "9"}
DigitValue(ch) == CHOOSE d \in 0..9 : Digit(d) = ch

\* the number of characters from position i on that are digits (spaces)
RECURSIVE DigitRun(_, _)
DigitRun(s, i) == IF i <= Len(s) /\ IsDigit(s[i]) THEN 1 + DigitRun(s, i + 1) ELSE 0

RECURSIVE SpaceRun(_, _)
SpaceRun(s, i) == IF i <= Len(s) /\ IsSpace(s[i]) THEN 1 + SpaceRun(s, i + 1) ELSE 0

\* int() of the digits s[i..j]
RECURSIVE DigitsToInt(_, _, _)
DigitsToInt(s, i, j) ==
  IF i > j THEN 0 ELSE DigitsToInt(s, i, j - 1) * 10 + DigitValue(s[j])

RetryIn == <<"r", "e", "t", "r", "y", " ", "i", "n", " ">>

\* RETRY_AFTER_PATTERN matched at position i: <<float(group 1)>> in
\* hundredths, <<>> if there is no match there.  \d+ and \s* take all they
\* can: what must follow them is neither a digit nor a space.
RetryAfterAt(s, i) ==
  LET num == i + Len(RetryIn)
      int_len == DigitRun(s, num)
      dot == num + int_len
      frac_len == IF dot <= Len(s) /\ s[dot] = "." THEN DigitRun(s, dot + 1) ELSE 0
      after == IF frac_len > 0 THEN dot + 1 + frac_len ELSE dot
      unit == after + SpaceRun(s, after)
      hundredths == IF frac_len = 0 THEN 0
                    ELSE IF frac_len = 1 THEN 10 * DigitValue(s[dot + 1])
                    ELSE DigitsToInt(s, dot + 1, dot + 2)
  IN IF /\ num - 1 <= Len(s)
        /\ lower(SubSeq(s, i, num - 1)) = RetryIn
        /\ int_len >= 1
        /\ unit <= Len(s)
        /\ lower_char(s[unit]) = "s"
     THEN <<Seconds(DigitsToInt(s, num, dot - 1)) + hundredths>>
     ELSE <<>>

\* RETRY_AFTER_PATTERN.search(err_str): the leftmost match
RetryAfter(s) ==
  LET hits == {i \in 1..Len(s) : RetryAfterAt(s, i) # <<>>}
  IN IF hits = {} THEN <<>>
     ELSE RetryAfterAt(s, CHOOSE i \in hits : \A j \in hits : i <= j)

\* line 93
is_429(err_str) ==
  \/ Contains(err_str, <<"4", "2", "9">>)
  \/ Contains(err_str, <<"R", "E", "S", "O", "U", "R", "C", "E", "_",
                         "E", "X", "H", "A", "U", "S", "T", "E", "D">>)
  \/ Contains(lower(err_str), <<"q", "u", "o", "t", "a">>)

\* lines 95-96 without line 97: the wait the message asks for, however long
wait_sec_uncapped(err_str) ==
  IF RetryAfter(err_str) # <<>> THEN RetryAfter(err_str)[1]
  ELSE Seconds(DEFAULT_429_WAIT_SEC)

\* lines 95-97
wait_sec(err_str) ==
  LET match == RetryAfter(err_str)
  IN Min(IF match # <<>> THEN match[1] ELSE Seconds(DEFAULT_429_WAIT_SEC),
         Seconds(MAX_WAIT_SEC))

\* lines 43-48; a row's ids are its subject_id, hadm_id and patient_id cells,
\* Null for a cell that is NaN or a column that is not there
_get_patient_id(row, index) ==
  IF \E k \in 1..Len(row.ids) : row.ids[k] # Null
  THEN Strip(PyStr(row.ids[CHOOSE k \in 1..Len(row.ids) :
                             /\ row.ids[k] # Null
                             /\ \A j \in 1..(k - 1) : row.ids[j] = Null]))
  ELSE IntToStr(index)

\* line 69
EmptyNote(note_text) == note_text = Null \/ Strip(PyStr(note_text)) = <<>>

\* lines 82-88, 108-114, 124-130
ErrorRecord(patient_id, error) ==
  Dict(<< <<"patient_id", Str(patient_id)>>,
          <<"error", Str(error)>>,
          <<"diabetes", Dict(<<>>)>>,
          <<"blood_pressure", Dict(<<>>)>>,
          <<"abnormal_markers", EmptyList>> >>)

\* the row at hand and its patient_id (df.iterrows counts from 0)
Row == df[idx + 1]
patient_id == _get_patient_id(Row, idx)

\* what results.append does, with the note of where it was done
Append_results(entry, place) ==
  /\ results' = Append(results, entry)
  /\ appended' = Append(appended, [row |-> idx, place |-> place])

\* lines 66-73: the next row, skipped if its note is empty
main_next_row ==
  /\ main_pc = "rows"
  /\ idx < Len(df)
  /\ IF EmptyNote(Row.text)
     THEN /\ idx' = idx + 1
          /\ UNCHANGED <<main_pc, attempt, last_error, sleeps, slept, invoked>>
     ELSE /\ last_error' = <<>>
          /\ attempt' = 0
          /\ sleeps' = 0
          /\ slept' = <<>>
          /\ invoked' = 0
          /\ main_pc' = "try"
          /\ UNCHANGED idx
  /\ UNCHANGED <<df, results, appended, written>>
  /\ UNCHANGED <<validate_vars, filter_vars>>

\* the exceptions the first except clause names, with their subclasses
IsValueError(type) == type \in {"ValueError", "JSONDecodeError"}

\* what crew.kickoff() may do
KickoffRaise(type, msg) == [kind |-> "raise", type |-> type, msg |-> msg, obj |-> Null]
KickoffText == [kind |-> "text", type |-> "", msg |-> <<>>, obj |-> Null]
KickoffJSON(obj) == [kind |-> "json", type |-> "", msg |-> <<>>, obj |-> obj]

\* the end of the for loop's iteration: break leaves the loop for the next row
break ==
  /\ main_pc' = "rows"
  /\ idx' = idx + 1

\* lines 74-78: run_extraction returned
try_return(kickoff) ==
  LET out == run_extraction(kickoff)
  IN /\ ~out.raised
     /\ Append_results(out.value, "try")
     /\ break
     /\ UNCHANGED <<attempt, last_error, sleeps, slept>>

\* lines 79-90: run_extraction raised a ValueError
except_ValueError(kickoff) ==
  LET e == run_extraction(kickoff)
  IN /\ e.raised
     /\ IsValueError(e.type)
     /\ Append_results(ErrorRecord(patient_id, e.msg), "except ValueError")
     /\ break
     /\ UNCHANGED <<attempt, last_error, sleeps, slept>>

\* the third clause retrying on every quota failure, the last attempt's too
except_Exception_retry(kickoff) ==
  LET e == run_extraction(kickoff)
      err_str == e.msg
  IN /\ e.raised
     /\ ~IsValueError(e.type)
     /\ last_error' = <<e>>
     /\ IF is_429(err_str)
        THEN /\ sleeps' = sleeps + 1
             /\ slept' = <<wait_sec(err_str)>>
             /\ main_pc' = "for"
             /\ UNCHANGED <<idx, results, appended>>
        ELSE /\ Append_results(ErrorRecord(patient_id, err_str), "except Exception")
             /\ break
             /\ UNCHANGED <<sleeps, slept>>
     /\ UNCHANGED attempt

\* lines 91-116: run_extraction raised another Exception
except_Exception(kickoff) ==
  LET e == run_extraction(kickoff)
      err_str == e.msg
  IN /\ e.raised
     /\ ~IsValueError(e.type)
     /\ last_error' = <<e>>
     /\ IF is_429(err_str) /\ attempt < MAX_429_RETRIES
        THEN /\ sleeps' = sleeps + 1
             /\ slept' = <<wait_sec(err_str)>>
             /\ main_pc' = "for"
             /\ UNCHANGED <<idx, results, appended>>
        ELSE /\ Append_results(ErrorRecord(patient_id, err_str), "except Exception")
             /\ break
             /\ UNCHANGED <<sleeps, slept>>
     /\ UNCHANGED attempt

\* the most rows of the frame
MaxNotes == 2

\* rows: a note whose id is its hadm_id, a blank note without any id and a
\* NaN note
NoteOf7 == [ids |-> <<Null, Str(<<"7", " ">>), Null>>, text |-> HbA1C]
BlankNote == [ids |-> <<Null, Null, Null>>, text |-> Str(<<" ">>)]
NaNNote == [ids |-> <<Num(7), Null, Null>>, text |-> Null]
Notes == {NoteOf7, BlankNote, NaNNote}

DataFrames == UNION {[1..k -> Notes] : k \in 0..MaxNotes}

\* what the agent's output may parse to: two objects of the schema ...
Extracted ==
  Dict(<< <<"patient_id", Str(<<"7">>)>>,
          <<"diabetes", Dict(<< <<"type", a>> >>)>>,
          <<"blood_pressure", Dict(<<>>)>>,
          <<"abnormal_markers", List(<<b>>)>> >>)
ExtractedMore ==
  Dict(<< <<"abnormal_markers", EmptyList>>,
          <<"blood_pressure", Dict(<< <<"bp_readings", Null>> >>)>>,
          <<"diabetes", Dict(<<>>)>>,
          <<"patient_id", Null>>,
          <<"note", c>> >>)
\* ... and what is not: no object, a key missing, a value of the wrong type
SchemaKeys == {"patient_id", "diabetes", "blood_pressure", "abnormal_markers"}
NotExtracted ==
  {EmptyList, a}
  \cup {WithoutKey(Extracted, key) : key \in SchemaKeys}
  \cup {WithKey(Extracted, "diabetes", a), WithKey(Extracted, "blood_pressure", EmptyList),
        WithKey(Extracted, "abnormal_markers", Dict(<<>>)),
        WithKey(Extracted, "abnormal_markers", Null)}

\* messages of the exceptions kickoff may raise
TooManyRequests == <<"E", "r", "r", "o", "r", " ", "4", "2", "9">>
Exhausted == 
  <<"R", "E", "S", "O", "U", "R", "C", "E", "_", "E", "X", "H", "A", "U", "S", "T", "E", "D", ".", " ", "R", "e", "t", "r", "y", " ", "i", "n", " ", "7", ".", "5", " ", "s">>
QuotaExceeded == <<"Q", "u", "o", "t", "a", ":", " ", "r", "e", "t", "r", "y", " ", "i", "n", " ", "5", "0", "0", "s">>
Timeout == <<"t", "i", "m", "e", "o", "u", "t">>
RetryLater == <<"r", "e", "t", "r", "y", " ", "i", "n", " ", "3", "s">>

Kickoffs ==
  {KickoffText}
  \cup {KickoffJSON(obj) : obj \in {Extracted, ExtractedMore} \cup NotExtracted}
  \cup {KickoffRaise("ValueError", TooManyRequests)}
  \cup {KickoffRaise("RuntimeError", msg) :
          msg \in {TooManyRequests, Exhausted, QuotaExceeded, Timeout, RetryLater}}

\* lines 73-116: one attempt, by the clause that ends it
main_try ==
  /\ main_pc = "try"
  /\ invoked' = invoked + 1
  /\ \E kickoff \in Kickoffs : try_return(kickoff)
  /\ UNCHANGED <<df, written>>
  /\ UNCHANGED <<validate_vars, filter_vars>>

main_except_ValueError ==
  /\ main_pc = "try"
  /\ invoked' = invoked + 1
  /\ \E kickoff \in Kickoffs : except_ValueError(kickoff)
  /\ UNCHANGED <<df, written>>
  /\ UNCHANGED <<validate_vars, filter_vars>>

main_except_Exception ==
  /\ main_pc = "try"
  /\ invoked' = invoked + 1
  /\ \E kickoff \in Kickoffs : except_Exception(kickoff)
  /\ UNCHANGED <<df, written>>
  /\ UNCHANGED <<validate_vars, filter_vars>>

\* line 73 after a continue: the next attempt, or, range(MAX_429_RETRIES + 1)
\* being exhausted, the else clause of lines 117-131
main_for_attempt ==
  /\ main_pc = "for"
  /\ IF attempt + 1 < MAX_429_RETRIES + 1
     THEN /\ attempt' = attempt + 1
          /\ main_pc' = "try"
          /\ UNCHANGED <<idx, results, appended>>
     ELSE /\ IF last_error # <<>>
             THEN Append_results(ErrorRecord(patient_id, last_error[1].msg), "else")
             ELSE UNCHANGED <<results, appended>>
          /\ break
          /\ UNCHANGED attempt
  /\ UNCHANGED <<df, last_error, sleeps, slept, invoked, written>>
  /\ UNCHANGED <<validate_vars, filter_vars>>

\* lines 133-137: the rows are exhausted, the results are written
main_write ==
  /\ main_pc = "rows"
  /\ idx = Len(df)
  /\ written' = <<results>>
  /\ main_pc' = "done"
  /\ UNCHANGED <<df, idx, attempt, last_error, results, sleeps, slept, invoked,
                 appended>>
  /\ UNCHANGED <<validate_vars, filter_vars>>

NextExtract ==
  \/ main_next_row
  \/ main_try
  \/ main_except_ValueError
  \/ main_except_Exception
  \/ main_for_attempt
  \/ main_write


InitExtract ==
  /\ gold_file = NoFiles
  /\ pred_file = NoFiles
  /\ Started
  /\ FilterIdle
  /\ df \in DataFrames
  /\ main_pc = "rows"
  /\ idx = 0
  /\ attempt = 0
  /\ last_error = <<>>
  /\ results = <<>>
  /\ sleeps = 0
  /\ slept = <<>>
  /\ invoked = 0
  /\ appended = <<>>
  /\ written = <<>>

SpecExtract == InitExtract /\ [][NextExtract]_vars

\* ------------------------------------------------------------ claim C12
\* a message with one of the three marks, 'quota' in the case written
MarksQuota(err_str) ==
  \/ Contains(err_str, <<"4", "2", "9">>)
  \/ Contains(err_str, <<"R", "E", "S", "O", "U", "R", "C", "E", "_",
                         "E", "X", "H", "A", "U", "S", "T", "E", "D">>)
  \/ Contains(err_str, <<"q", "u", "o", "t", "a">>)

\* the same, 'quota' in any letter case
MarksQuotaAnyCase(err_str) ==
  \/ MarksQuota(err_str)
  \/ \E i \in 0..(Len(err_str) - 5) :
       /\ err_str[i + 1] \in {"q", "Q"}
       /\ err_str[i + 2] \in {"u", "U"}
       /\ err_str[i + 3] \in {"o", "O"}
       /\ err_str[i + 4] \in {"t", "T"}
       /\ err_str[i + 5] \in {"a", "A"}

\* the attempts of one note stay within bounds
AttemptsBounded ==
  /\ invoked <= MAX_429_RETRIES + 1
  /\ sleeps <= MAX_429_RETRIES
  /\ main_pc = "try" => (invoked = attempt /\ sleeps = attempt /\ attempt <= MAX_429_RETRIES)
  /\ main_pc = "for" => (invoked = attempt + 1 /\ sleeps = attempt + 1)
  /\ slept # <<>> => (slept[1] >= 0 /\ slept[1] <= Seconds(120))
  /\ sleeps > 0 => slept # <<>>

\* the failure kept in last_error is one an except Exception clause caught
FailedOtherwise == last_error # <<>> /\ ~IsValueError(last_error[1].type)

\* a step from an attempt to the loop header: the attempt failed, no record
\* was appended, a wait was made, retries are left
RetryStep ==
  /\ main_pc' = "for"
  /\ attempt < MAX_429_RETRIES
  /\ sleeps' = sleeps + 1
  /\ slept' # <<>>
  /\ slept'[1] <= Seconds(120)
  /\ UNCHANGED <<idx, results>>

\* a step from an attempt that ends the attempts for the note
EndStep ==
  /\ main_pc' = "rows"
  /\ idx' = idx + 1
  /\ Len(results') = Len(results) + 1
  /\ UNCHANGED <<sleeps, slept>>

\* how the last entry of a list was appended
LastPlace(places) == places[Len(places)].place

\* a measure every step lowers: rows left, then attempts left, then position
StepsLeft ==
  LET per_row == 2 * (MAX_429_RETRIES + 1) + 2
      rows_left == (Len(df) - idx) * per_row + 1
  IN CASE main_pc = "done" -> 0
       [] main_pc = "rows" -> rows_left
       [] main_pc = "try" -> rows_left - (1 + 2 * attempt)
       [] main_pc = "for" -> rows_left - (2 + 2 * attempt)
       [] OTHER -> 0

Terminates ==
  /\ StepsLeft' < StepsLeft
  /\ StepsLeft' >= 0

\* C12 as stated: for each note run_extraction is invoked at most
\* MAX_429_RETRIES + 1 = 4 times; another attempt follows a failed attempt
\* only if the failure is a non-ValueError exception whose message contains
\* '429', 'RESOURCE_EXHAUSTED' or 'quota' and fewer than 3 retries have been
\* made; a wait of at most 120 seconds precedes each retry; any success,
\* ValueError/JSON error or non-quota exception ends the attempts for that
\* note at once; and the loop over the notes terminates.
C12_RetryOnlyOnQuotaMark ==
  /\ [](AttemptsBounded /\ (main_pc = "done" \/ ENABLED NextExtract))
  /\ [][/\ NextExtract => Terminates
        /\ main_pc = "try" =>
             \/ RetryStep /\ FailedOtherwise' /\ MarksQuota(last_error'[1].msg)
             \/ EndStep
        /\ (main_pc = "try" /\ main_pc' = "for") =>
             (FailedOtherwise' /\ MarksQuota(last_error'[1].msg))
        /\ (main_pc = "for" /\ main_pc' = "try") =>
             (attempt' = attempt + 1 /\ attempt' <= MAX_429_RETRIES)]_vars

\* C12 as the code has it: the same, the message containing '429',
\* 'RESOURCE_EXHAUSTED' or, in any letter case, 'quota'; and a success, a
\* ValueError or an exception without such a message is never retried.
C12_RetryOnlyOnQuota ==
  /\ [](AttemptsBounded /\ (main_pc = "done" \/ ENABLED NextExtract))
  /\ [][/\ NextExtract => Terminates
        /\ main_pc = "try" =>
             \/ RetryStep /\ FailedOtherwise' /\ MarksQuotaAnyCase(last_error'[1].msg)
             \/ /\ EndStep
                /\ LastPlace(appended') = "except Exception" =>
                     (FailedOtherwise' /\ (~MarksQuotaAnyCase(last_error'[1].msg)
                                             \/ attempt = MAX_429_RETRIES))
        /\ (main_pc = "for" /\ main_pc' = "try") =>
             (attempt' = attempt + 1 /\ attempt' <= MAX_429_RETRIES)]_vars

\* C12 witness: the fourth attempt for a note has failed on quota after three
\* waits, the last of them the 120 seconds a 500 s hint is cut to, and the
\* attempts have ended with one error record.
C12_Witness ==
  /\ main_pc = "rows"
  /\ idx = 1
  /\ invoked = MAX_429_RETRIES + 1
  /\ sleeps = MAX_429_RETRIES
  /\ slept = <<Seconds(120)>>
  /\ attempt = MAX_429_RETRIES
  /\ last_error # <<>>
  /\ last_error[1].msg = QuotaExceeded
  /\ Len(results) = 1
  /\ LastPlace(appended) = "except Exception"

\* ------------------------------------------------------------ claim C13
\* the rows before row n that hold a note
RECURSIVE NonEmptyBefore(_)
NonEmptyBefore(n) ==
  IF n = 0 THEN <<>>
  ELSE NonEmptyBefore(n - 1)
       \o (IF EmptyNote(df[n].text) THEN <<>> ELSE <<n - 1>>)

\* the rows the loop is done with: all before idx
AppendedRows == [k \in 1..Len(appended) |-> appended[k].row]

\* an entry is the object run_extraction returned, or one error record with
\* the row's patient_id and a message
IsErrorRecordOf(entry, row) ==
  /\ entry.t = "dict"
  /\ HasKey(entry, "error")
  /\ Lookup(entry, "error").t = "str"
  /\ entry = ErrorRecord(_get_patient_id(df[row + 1], row), Lookup(entry, "error").v)

IsExtracted(entry) ==
  \E kickoff \in Kickoffs :
    /\ kickoff.kind = "json"
    /\ entry = kickoff.obj
    /\ ~run_extraction(kickoff).raised

\* C13: the loop appends exactly one entry to results for each note with
\* non-empty text (the extracted object or one error record, also when all
\* four attempts hit quota errors), none for an empty note, in row order; the
\* list written has as many entries as there are non-empty notes among the
\* rows read; and the else clause of the retry loop never appends.
C13_OneEntryPerNote ==
  /\ Len(results) = Len(appended)
  /\ AppendedRows = NonEmptyBefore(idx)
  /\ \A k \in 1..Len(appended) :
       /\ appended[k].place # "else"
       /\ IF appended[k].place = "try"
          THEN IsExtracted(results[k])
          ELSE IsErrorRecordOf(results[k], appended[k].row)
  /\ main_pc \in {"try", "for"} => (idx < Len(df) /\ ~EmptyNote(Row.text))
  /\ written # <<>> =>
       /\ written[1] = results
       /\ Len(written[1]) = Len(NonEmptyBefore(Len(df)))

\* C13 witness: the results are written for a frame of an empty note and a
\* note all four attempts of which failed on quota: one entry, the error
\* record of the second row, appended by the except clause.
C13_Witness ==
  /\ main_pc = "done"
  /\ Len(df) = 2
  /\ EmptyNote(df[1].text)
  /\ invoked = MAX_429_RETRIES + 1
  /\ AppendedRows = <<1>>
  /\ appended[1].place = "except Exception"
  /\ Len(written[1]) = 1
  /\ IsErrorRecordOf(written[1][1], 1)
  /\ Lookup(written[1][1], "error").v = Exhausted

\* ------------------------------------------------------------ claim C14
\* the minimal schema: a mapping with the four keys, diabetes and
\* blood_pressure mappings, abnormal_markers a list
MinimalSchema(entry) ==
  /\ entry.t = "dict"
  /\ \A key \in SchemaKeys : \E i \in 1..Len(entry.v) : entry.v[i][1] = key
  /\ \A i \in 1..Len(entry.v) :
       /\ entry.v[i][1] \in {"diabetes", "blood_pressure"} => entry.v[i][2].t = "dict"
       /\ entry.v[i][1] = "abnormal_markers" => entry.v[i][2].t = "list"

\* C14: every entry ever appended to results satisfies the minimal schema
\* _validate_schema enforces, the extracted objects and the error records
\* alike.
C14_EntriesSatisfySchema ==
  /\ \A k \in 1..Len(results) : MinimalSchema(results[k])
  /\ written # <<>> => \A k \in 1..Len(written[1]) : MinimalSchema(written[1][k])

\* C14 witness: the written results hold an extracted object and the error
\* record of an output whose abnormal_markers is no list.
C14_Witness ==
  /\ main_pc = "done"
  /\ Len(appended) = 2
  /\ appended[1].place = "try"
  /\ appended[2].place = "except ValueError"
  /\ Lookup(results[2], "error").v = <<"'abnormal_markers' must be an array">>
  /\ written = <<results>>

====
